---- MODULE Spec2Model ----
(***************************************************************************)
(* Model of the httpxxray lifecycle handler (gogama/aws-xray-httpx).       *)
(*                                                                         *)
(* The handler observes the events of one httpx execution and maps them    *)
(* onto X-Ray segments: one root ("execution") subsegment and one child    *)
(* subsegment per attempt.  The state is the request.Execution the events  *)
(* carry, the segments held by the X-Ray SDK, the logger's calls and the   *)
(* calls made on the per-attempt xray.HTTPSubsegments handles.             *)
(*                                                                         *)
(* One handler invocation is one action; racing attempts show as the order *)
(* in which the pipeline fires their events.                               *)
(***************************************************************************)
EXTENDS Integers, Sequences, FiniteSets, TLC

(***************************************************************************)
(* Bounds.                                                                 *)
(***************************************************************************)
\* Number of attempts one execution may start (attempt indices 0..MaxAttempts-1).
MaxAttempts == 2

(***************************************************************************)
(* Encodings of Go's nil values.                                           *)
(***************************************************************************)
\* xray.GetSegment / xray.BeginSubsegment returning a nil *xray.Segment.
NoSeg == 0
\* A nil *http.Response (e.Response == nil).
NoResponse == 0
\* A nil []byte body (as opposed to an empty one, whose length is 0).
NilBody == -1
\* A metadata key that was never written with AddMetadataToNamespace.
NoMeta == -1
\* A nil error.
NilErr == "nil"
\* The zero attemptState{}: its httpSubsegments pointer is nil.
NoHandle == 0
\* An error message that carries no attempt index.
NoIndex == -1
\* A nil Logger.
NilLogger == "nil"

(***************************************************************************)
(* Values.                                                                 *)
(***************************************************************************)
\* A context.Context, reduced to what the X-Ray SDK reads from it: the
\* segment stored under xray.ContextKey and whether an ambient trace (the
\* Lambda trace header of parentCtx) is present.
BareCtx == [seg |-> NoSeg, ambient |-> FALSE]
AmbientCtx == [seg |-> NoSeg, ambient |-> TRUE]

\* An *http.Request: its context and its X-Amzn-Trace-Id header (the id of
\* the segment whose DownstreamHeader was written, NoSeg when unset).
NewRequest(ctx) == [ctx |-> ctx, traceHeader |-> NoSeg]

\* e.Request before the pipeline has built any request.
NilRequest == NewRequest(BareCtx)

\* The outcomes the pipeline reports for an attempt or for the execution:
\* e.Response (status code), e.Err and e.Body (length).
Outcomes ==
    { [resp |-> NoResponse, err |-> NilErr,      body |-> NilBody],
      [resp |-> 200,        err |-> NilErr,      body |-> 3],
      [resp |-> 200,        err |-> NilErr,      body |-> 0],
      [resp |-> 200,        err |-> "Timeout",   body |-> NilBody],
      [resp |-> 404,        err |-> NilErr,      body |-> 0],
      [resp |-> 404,        err |-> "Timeout",   body |-> NilBody],
      [resp |-> 429,        err |-> NilErr,      body |-> 3],
      [resp |-> 503,        err |-> NilErr,      body |-> 3],
      [resp |-> NoResponse, err |-> "Redundant", body |-> NilBody] }

\* The plan's Host field and its URL's host.
PlanHosts == { [Host |-> "", URLHost |-> "foo.com"],
               [Host |-> "bar.com", URLHost |-> "foo.com"] }

VARIABLES
    plan,        \* e.Plan: [ctx, Host, URLHost]
    request,     \* e.Request
    attempt,     \* e.Attempt
    wave,        \* e.Wave
    response,    \* e.Response (status code or NoResponse)
    err,         \* e.Err
    body,        \* e.Body (length or NilBody)
    es,          \* e.Value(executionStateKey): [present, as]
    segs,        \* the segments the SDK has begun, indexed by segment id
    log,         \* the calls made on the Logger
    gotConn,     \* the GotConn(nil, err) calls made on HTTPSubsegments handles
    phase,       \* pipeline: "new", "running", "ended"
    started,     \* pipeline: number of attempts started
    reqs,        \* pipeline: the request it holds for each started attempt
    concluded,   \* pipeline: the attempts whose AfterAttempt was fired
    timedOut,    \* pipeline: AfterPlanTimeout was fired
    entry,       \* pipeline: the execution's fields as it handed them to the handler
    last,        \* the last event handled and what the handler did in it
    stored,      \* store exercise: the handle most recently put at each index
    handlers,    \* installation: the httpx.HandlerGroup (NilGroup when nil)
    logger,      \* installation: the logger argument, then the handler's logger
    pc,          \* concurrent handling: each invocation's position in its code
    locks,       \* concurrent handling: the invocations holding each span's lock
    heap,        \* concurrent handling: the executionState objects and the key's value
    loc          \* concurrent handling: each invocation's local variables

\* The variables only the exercises of single parts of the handler change.
aside == << stored, handlers, logger, pc, locks, heap, loc >>

vars == << plan, request, attempt, wave, response, err, body, es, segs, log,
           gotConn, phase, started, reqs, concluded, timedOut, entry, last,
           aside >>

(***************************************************************************)
(* The X-Ray SDK, at the interface the handler uses.                       *)
(***************************************************************************)
\* xray.GetSegment(ctx)
GetSegment(ctx) == ctx.seg

\* Whether xray.BeginSubsegment(ctx, name) can begin a subsegment: the
\* context carries a segment, or an ambient trace from which the SDK makes
\* a facade parent.
CanBegin(ctx) == ctx.seg # NoSeg \/ ctx.ambient

\* The segment xray.BeginSubsegment creates.
NewSegment(ctx, name) ==
    [ Name       |-> name,
      parent     |-> ctx.seg,
      InProgress |-> TRUE,
      Namespace  |-> "",
      Error      |-> FALSE,
      Fault      |-> FALSE,
      Throttle   |-> FALSE,
      Method     |-> FALSE,
      Status     |-> 0,
      attempt      |-> NoMeta,
      body_length  |-> NoMeta,
      attempts     |-> NoMeta,
      waves        |-> NoMeta,
      plan_timeout |-> FALSE,
      closes     |-> 0,
      annotatedAfterClose |-> FALSE ]

\* seg.AddMetadataToNamespace("httpx", key, value) on segment s of ss.
AddMetadata(ss, s, key, value) ==
    [ss EXCEPT ![s] = [@ EXCEPT ![key] = value,
                                !.annotatedAfterClose = @ \/ ~ss[s].InProgress]]

\* seg.Close(e): ends the segment and records a non-nil error as a fault.
Close(ss, s, e) ==
    [ss EXCEPT ![s] = [@ EXCEPT !.InProgress = FALSE,
                                !.Fault = IF e # NilErr THEN TRUE ELSE @,
                                !.closes = @ + 1]]

(***************************************************************************)
(* Metadata annotator.                                                     *)
(***************************************************************************)
\* Variant of setSegmentHTTPResponse: the 4xx and 5xx cases are exchanged.
setSegmentHTTPResponse_Swapped(ss, s, resp) ==
    IF resp = NoResponse
    THEN ss
    ELSE [ss EXCEPT ![s] =
            [@ EXCEPT !.Status   = resp,
                      !.Error    = IF resp \div 100 = 5 THEN TRUE ELSE @,
                      !.Throttle = IF resp \div 100 = 5 /\ resp = 429 THEN TRUE ELSE @,
                      !.Fault    = IF resp \div 100 = 4 THEN TRUE ELSE @,
                      !.annotatedAfterClose = @ \/ ~ss[s].InProgress]]

\* Variant of setSegmentHTTPResponse: every 4xx status counts as throttling.
setSegmentHTTPResponse_Throttle4xx(ss, s, resp) ==
    IF resp = NoResponse
    THEN ss
    ELSE [ss EXCEPT ![s] =
            [@ EXCEPT !.Status   = resp,
                      !.Error    = IF resp \div 100 = 4 THEN TRUE ELSE @,
                      !.Throttle = IF resp \div 100 = 4 THEN TRUE ELSE @,
                      !.Fault    = IF resp \div 100 = 5 THEN TRUE ELSE @,
                      !.annotatedAfterClose = @ \/ ~ss[s].InProgress]]

setSegmentHTTPResponse(ss, s, resp) ==
    IF resp = NoResponse
    THEN ss
    ELSE [ss EXCEPT ![s] =
            [@ EXCEPT !.Status   = resp,
                      !.Error    = IF resp \div 100 = 4 THEN TRUE ELSE @,
                      !.Throttle = IF resp \div 100 = 4 /\ resp = 429 THEN TRUE ELSE @,
                      !.Fault    = IF resp \div 100 = 5 THEN TRUE ELSE @,
                      !.annotatedAfterClose = @ \/ ~ss[s].InProgress]]

\* Variant of setSegmentBodyLen: an empty body is treated like an absent one.
setSegmentBodyLen_EmptyAsAbsent(ss, s, b) ==
    IF b # NilBody /\ b > 0 THEN AddMetadata(ss, s, "body_length", b) ELSE ss

setSegmentBodyLen(ss, s, b) ==
    IF b # NilBody THEN AddMetadata(ss, s, "body_length", b) ELSE ss

\* Variant of setSegmentExecutionMetadata: the two counts are exchanged.
setSegmentExecutionMetadata_Swapped(ss, s, attempts, waves) ==
    AddMetadata(AddMetadata(ss, s, "attempts", waves), s, "waves", attempts)

setSegmentExecutionMetadata(ss, s, attempts, waves) ==
    AddMetadata(AddMetadata(ss, s, "attempts", attempts), s, "waves", waves)

setSegmentAttemptMetadata(ss, s, a) ==
    AddMetadata(ss, s, "attempt", a)

\* fmt.Sprintf(format, n) for a format that ends with the verb %d: the text
\* before the verb followed by the decimal digits of n.
Sprintf(format, n) ==
    SubSeq(format, 1, Len(format) - 2) \o ToString(n)

\* Variant of host: ignores the plan's Host override.
host_URLOnly(p) == p.URLHost

\* host(p)
host(p) == IF p.Host # "" THEN p.Host ELSE p.URLHost

(***************************************************************************)
(* Attempt state store.                                                    *)
(***************************************************************************)
\* The executionState found under executionStateKey; absent when nil.
NoState == [present |-> FALSE, as |-> << >>]

\* Variant of putAttemptState: always appends the entry, whatever the index.
putAttemptState_Append(st, a, h) ==
    [present |-> TRUE, as |-> Append(IF st.present THEN st.as ELSE << >>, h)]

\* Variant of putAttemptState: growing the slice past its length does not
\* copy the old entries.
putAttemptState_GrowDrops(st, a, h) ==
    LET cur == IF st.present THEN st.as ELSE << >>
        grown ==
            IF Len(cur) = a
            THEN Append(cur, NoHandle)
            ELSE IF Len(cur) < a
                 THEN [i \in 1..(a + 1) |-> NoHandle]
                 ELSE cur
    IN [present |-> TRUE, as |-> [grown EXCEPT ![a + 1] = h]]

\* A Go slice of attemptState is indexed from 0; as[i+1] here is es.as[i].
putAttemptState(st, a, h) ==
    LET cur == IF st.present THEN st.as ELSE << >>
        grown ==
            IF Len(cur) = a
            THEN Append(cur, NoHandle)
            ELSE IF Len(cur) < a
                 THEN [i \in 1..(a + 1) |-> IF i <= Len(cur) THEN cur[i] ELSE NoHandle]
                 ELSE cur
    IN [present |-> TRUE, as |-> [grown EXCEPT ![a + 1] = h]]

\* Variant of getAttemptState: an entry with a nil handle counts as missing.
getAttemptState_HolesAreErrors(st, a) ==
    IF ~st.present
    THEN [as |-> NoHandle, err |-> "httpxxray: no execution state", attempt |-> NoIndex]
    ELSE IF Len(st.as) <= a \/ st.as[a + 1] = NoHandle
         THEN [as |-> NoHandle, err |-> "httpxxray: no attempt state %d", attempt |-> a]
         ELSE [as |-> st.as[a + 1], err |-> NilErr, attempt |-> NoIndex]

\* Variant of getAttemptState: a missing state or entry yields the zero
\* attemptState and no error.
getAttemptState_ZeroValue(st, a) ==
    IF st.present /\ Len(st.as) > a
    THEN [as |-> st.as[a + 1], err |-> NilErr, attempt |-> NoIndex]
    ELSE [as |-> NoHandle, err |-> NilErr, attempt |-> NoIndex]

\* Variant of getAttemptState: reads the entry of the most recently stored
\* attempt instead of the entry at the index the event carries.
getAttemptState_Latest(st, a) ==
    IF ~st.present
    THEN [as |-> NoHandle, err |-> "httpxxray: no execution state", attempt |-> NoIndex]
    ELSE IF Len(st.as) <= a
         THEN [as |-> NoHandle, err |-> "httpxxray: no attempt state %d", attempt |-> a]
         ELSE [as |-> st.as[Len(st.as)], err |-> NilErr, attempt |-> NoIndex]

\* getAttemptState: the handle and the error ("nil" when found), the error
\* being its format and the attempt index that fills the format's %d.
getAttemptState(st, a) ==
    IF ~st.present
    THEN [as |-> NoHandle, err |-> "httpxxray: no execution state", attempt |-> NoIndex]
    ELSE IF Len(st.as) <= a
         THEN [as |-> NoHandle, err |-> "httpxxray: no attempt state %d", attempt |-> a]
         ELSE [as |-> st.as[a + 1], err |-> NilErr, attempt |-> NoIndex]

(***************************************************************************)
(* What a handler invocation did: the event (n-th of the execution), the   *)
(* attempt index and request the event carried, the segment the handler    *)
(* began or resolved, whether it read the attempt state store, the handle  *)
(* it obtained there and the value it panicked with (a message and the     *)
(* attempt index the message names).                                       *)
(***************************************************************************)
Did(evt, a, req) ==
    [n |-> last.n + 1, evt |-> evt, attempt |-> a, req |-> req, seg |-> NoSeg,
     opened |-> FALSE, consulted |-> FALSE, handle |-> NoHandle, panic |-> NilErr,
     panicIdx |-> NoIndex]

\* subsegmentNotStartedF filled in by logSubsegmentNotStarted(evt, l, p).
logSubsegmentNotStarted(evt, p) == [event |-> evt, host |-> host(p)]

(***************************************************************************)
(* Event handlers.                                                         *)
(***************************************************************************)
\* Variant of beforeExecutionStart: logs also when the subsegment was begun.
beforeExecutionStart_AlwaysLogs ==
    IF ~CanBegin(plan.ctx)
    THEN /\ log' = Append(log, logSubsegmentNotStarted("BeforeExecutionStart", plan))
         /\ last' = Did("BeforeExecutionStart", attempt, request)
         /\ UNCHANGED << plan, segs >>
    ELSE LET s == Len(segs) + 1
             seg == [NewSegment(plan.ctx, host(plan)) EXCEPT !.Namespace = "remote"]
         IN /\ segs' = Append(segs, seg)
            /\ plan' = [plan EXCEPT !.ctx = [@ EXCEPT !.seg = s]]
            /\ last' = [Did("BeforeExecutionStart", attempt, request)
                          EXCEPT !.seg = s, !.opened = TRUE]
            /\ log' = Append(log, logSubsegmentNotStarted("BeforeExecutionStart", plan))

beforeExecutionStart ==
    IF ~CanBegin(plan.ctx)
    THEN /\ log' = Append(log, logSubsegmentNotStarted("BeforeExecutionStart", plan))
         /\ last' = Did("BeforeExecutionStart", attempt, request)
         /\ UNCHANGED << plan, segs >>
    ELSE LET s == Len(segs) + 1
             seg == [NewSegment(plan.ctx, host(plan)) EXCEPT !.Namespace = "remote"]
         IN /\ segs' = Append(segs, seg)
            /\ plan' = [plan EXCEPT !.ctx = [@ EXCEPT !.seg = s]]
            /\ last' = [Did("BeforeExecutionStart", attempt, request)
                          EXCEPT !.seg = s, !.opened = TRUE]
            /\ UNCHANGED log

\* Variant of afterExecutionEnd: seg.Close(e.Err) is called at once, not
\* deferred, and the annotations follow it.
afterExecutionEnd_ClosesFirst(o) ==
    LET s == GetSegment(plan.ctx)
    IN IF s = NoSeg
       THEN /\ last' = Did("AfterExecutionEnd", attempt, request)
            /\ UNCHANGED segs
       ELSE /\ segs' = setSegmentExecutionMetadata(
                         setSegmentBodyLen(
                           setSegmentHTTPResponse(Close(segs, s, o.err), s, o.resp),
                           s, o.body),
                         s, attempt + 1, wave + 1)
            /\ last' = [Did("AfterExecutionEnd", attempt, request) EXCEPT !.seg = s]

\* Variant of afterExecutionEnd: the root segment also takes over the flags
\* of its child segments.
afterExecutionEnd_InheritFlags(o) ==
    LET s == GetSegment(plan.ctx)
        kids == { t \in 1..Len(segs) : segs[t].parent = s }
        closed == Close(
                    setSegmentExecutionMetadata(
                      setSegmentBodyLen(
                        setSegmentHTTPResponse(segs, s, o.resp), s, o.body),
                      s, attempt + 1, wave + 1),
                    s, o.err)
    IN IF s = NoSeg
       THEN /\ last' = Did("AfterExecutionEnd", attempt, request)
            /\ UNCHANGED segs
       ELSE /\ segs' = [closed EXCEPT ![s] =
                          [@ EXCEPT !.Error    = @ \/ \E t \in kids : segs[t].Error,
                                    !.Fault    = @ \/ \E t \in kids : segs[t].Fault,
                                    !.Throttle = @ \/ \E t \in kids : segs[t].Throttle]]
            /\ last' = [Did("AfterExecutionEnd", attempt, request) EXCEPT !.seg = s]

\* Variant of afterExecutionEnd: closes the root segment only when none of
\* its child segments is still in progress.
afterExecutionEnd_WaitAttempts(o) ==
    LET s == GetSegment(plan.ctx)
        annotated == setSegmentExecutionMetadata(
                       setSegmentBodyLen(
                         setSegmentHTTPResponse(segs, s, o.resp), s, o.body),
                       s, attempt + 1, wave + 1)
    IN IF s = NoSeg
       THEN /\ last' = Did("AfterExecutionEnd", attempt, request)
            /\ UNCHANGED segs
       ELSE /\ segs' = IF \E t \in 1..Len(segs) : segs[t].parent = s /\ segs[t].InProgress
                       THEN annotated
                       ELSE Close(annotated, s, o.err)
            /\ last' = [Did("AfterExecutionEnd", attempt, request) EXCEPT !.seg = s]

\* afterExecutionEnd, with the final outcome o (e.Response, e.Err, e.Body) set
\* by the pipeline.
afterExecutionEnd(o) ==
    LET s == GetSegment(plan.ctx)
    IN IF s = NoSeg
       THEN /\ last' = Did("AfterExecutionEnd", attempt, request)
            /\ UNCHANGED segs
       ELSE /\ segs' = Close(
                         setSegmentExecutionMetadata(
                           setSegmentBodyLen(
                             setSegmentHTTPResponse(segs, s, o.resp),
                             s, o.body),
                           s, attempt + 1, wave + 1),
                         s, o.err)
            /\ last' = [Did("AfterExecutionEnd", attempt, request) EXCEPT !.seg = s]

\* Variant of beforeAttempt: records the attempt in the state store before it
\* checks whether the subsegment was begun.
beforeAttempt_PutFirst(req, a) ==
    IF ~CanBegin(req.ctx)
    THEN /\ log' = Append(log, logSubsegmentNotStarted("BeforeAttempt", plan))
         /\ request' = req
         /\ es' = putAttemptState(es, a, NoHandle)
         /\ last' = Did("BeforeAttempt", a, req)
         /\ UNCHANGED segs
    ELSE LET s == Len(segs) + 1
             seg == [setSegmentAttemptMetadata(
                        Append(segs, NewSegment(req.ctx, Sprintf("Attempt:%d", a))), s, a)[s]
                     EXCEPT !.Method = TRUE]
             ctx == [req.ctx EXCEPT !.seg = s]
         IN /\ segs' = Append(segs, seg)
            /\ es' = putAttemptState(es, a, s)
            /\ request' = [ctx |-> ctx, traceHeader |-> s]
            /\ last' = [Did("BeforeAttempt", a, req)
                          EXCEPT !.seg = s, !.opened = TRUE, !.handle = s]
            /\ UNCHANGED log

\* Variant of beforeAttempt: begins the subsegment from the context of the
\* request the previous attempt left on the execution, when that context
\* carries a segment.
beforeAttempt_StaleContext(req, a) ==
    LET from == IF GetSegment(request.ctx) # NoSeg THEN request.ctx ELSE req.ctx
    IN IF ~CanBegin(from)
       THEN /\ log' = Append(log, logSubsegmentNotStarted("BeforeAttempt", plan))
            /\ request' = req
            /\ last' = Did("BeforeAttempt", a, req)
            /\ UNCHANGED << segs, es >>
       ELSE LET s == Len(segs) + 1
                seg == [setSegmentAttemptMetadata(
                           Append(segs, NewSegment(from, Sprintf("Attempt:%d", a))), s, a)[s]
                        EXCEPT !.Method = TRUE]
                ctx == [from EXCEPT !.seg = s]
            IN /\ segs' = Append(segs, seg)
               /\ es' = putAttemptState(es, a, s)
               /\ request' = [ctx |-> ctx, traceHeader |-> s]
               /\ last' = [Did("BeforeAttempt", a, req)
                             EXCEPT !.seg = s, !.opened = TRUE, !.handle = s]
               /\ UNCHANGED log

\* beforeAttempt, with e.Request = req and e.Attempt = a set by the pipeline.
beforeAttempt(req, a) ==
    IF ~CanBegin(req.ctx)
    THEN /\ log' = Append(log, logSubsegmentNotStarted("BeforeAttempt", plan))
         /\ request' = req
         /\ last' = Did("BeforeAttempt", a, req)
         /\ UNCHANGED << segs, es >>
    ELSE LET s == Len(segs) + 1
             seg == [setSegmentAttemptMetadata(
                        Append(segs, NewSegment(req.ctx, Sprintf("Attempt:%d", a))), s, a)[s]
                     EXCEPT !.Method = TRUE]
             ctx == [req.ctx EXCEPT !.seg = s]
         IN /\ segs' = Append(segs, seg)
            /\ es' = putAttemptState(es, a, s)
            /\ request' = [ctx |-> ctx, traceHeader |-> s]
            /\ last' = [Did("BeforeAttempt", a, req)
                          EXCEPT !.seg = s, !.opened = TRUE, !.handle = s]
            /\ UNCHANGED log

\* Variant of afterAttemptOn: GotConn is called on the handle whether or not
\* the attempt ended in error.
afterAttemptOn_AlwaysGotConn(s, req, a, o) ==
    LET got == getAttemptState(es, a)
    IN IF s = NoSeg
       THEN /\ last' = Did("AfterAttempt", a, req)
            /\ UNCHANGED << segs, gotConn >>
       ELSE IF got.err # NilErr
            THEN /\ segs' = Close(segs, s, o.err)
                 /\ last' = [Did("AfterAttempt", a, req)
                               EXCEPT !.seg = s, !.consulted = TRUE, !.panic = got.err,
                                      !.panicIdx = got.attempt]
                 /\ UNCHANGED gotConn
            ELSE /\ segs' = Close(
                              setSegmentBodyLen(
                                setSegmentHTTPResponse(segs, s, o.resp), s, o.body),
                              s, o.err)
                 /\ gotConn' = Append(gotConn, [handle |-> got.as, err |-> o.err])
                 /\ last' = [Did("AfterAttempt", a, req)
                               EXCEPT !.seg = s, !.consulted = TRUE, !.handle = got.as]

\* Variant of afterAttemptOn: seg.Close(e.Err) is deferred only after the
\* lookup of the attempt state, so a panic of the lookup leaves the segment
\* in progress.
afterAttemptOn_DefersAfterLookup(s, req, a, o) ==
    LET got == getAttemptState(es, a)
    IN IF s = NoSeg
       THEN /\ last' = Did("AfterAttempt", a, req)
            /\ UNCHANGED << segs, gotConn >>
       ELSE IF got.err # NilErr
            THEN /\ last' = [Did("AfterAttempt", a, req)
                               EXCEPT !.seg = s, !.consulted = TRUE, !.panic = got.err,
                                      !.panicIdx = got.attempt]
                 /\ UNCHANGED << segs, gotConn >>
            ELSE /\ segs' = Close(
                              setSegmentBodyLen(
                                setSegmentHTTPResponse(segs, s, o.resp), s, o.body),
                              s, o.err)
                 /\ gotConn' = IF o.err # NilErr /\ got.as # NoHandle
                               THEN Append(gotConn, [handle |-> got.as, err |-> o.err])
                               ELSE gotConn
                 /\ last' = [Did("AfterAttempt", a, req)
                               EXCEPT !.seg = s, !.consulted = TRUE, !.handle = got.as]

\* Variant of afterAttemptOn: the segment is closed only when the attempt
\* ended without an error.
afterAttemptOn_KeepsOpenOnError(s, req, a, o) ==
    LET got == getAttemptState(es, a)
        annotated == setSegmentBodyLen(setSegmentHTTPResponse(segs, s, o.resp), s, o.body)
    IN IF s = NoSeg
       THEN /\ last' = Did("AfterAttempt", a, req)
            /\ UNCHANGED << segs, gotConn >>
       ELSE /\ segs' = IF o.err = NilErr THEN Close(annotated, s, o.err) ELSE annotated
            /\ gotConn' = IF o.err # NilErr /\ got.as # NoHandle
                          THEN Append(gotConn, [handle |-> got.as, err |-> o.err])
                          ELSE gotConn
            /\ last' = [Did("AfterAttempt", a, req)
                          EXCEPT !.seg = s, !.consulted = TRUE, !.handle = got.as]

\* The body of afterAttempt once it has resolved the segment s (NoSeg when
\* the request's context carries none).  The deferred seg.Close(e.Err) runs
\* whether or not the lookup of the attempt state panics.  GotConn called
\* on the nil handle of a placeholder entry dereferences a nil pointer.
afterAttemptOn(s, req, a, o) ==
    LET got == getAttemptState(es, a)
    IN IF s = NoSeg
       THEN /\ last' = Did("AfterAttempt", a, req)
            /\ UNCHANGED << segs, gotConn >>
       ELSE IF got.err # NilErr
            THEN /\ segs' = Close(segs, s, o.err)
                 /\ last' = [Did("AfterAttempt", a, req)
                               EXCEPT !.seg = s, !.consulted = TRUE, !.panic = got.err,
                                      !.panicIdx = got.attempt]
                 /\ UNCHANGED gotConn
            ELSE /\ segs' = Close(
                              setSegmentBodyLen(
                                setSegmentHTTPResponse(segs, s, o.resp), s, o.body),
                              s, o.err)
                 /\ gotConn' = IF o.err # NilErr /\ got.as # NoHandle
                               THEN Append(gotConn, [handle |-> got.as, err |-> o.err])
                               ELSE gotConn
                 /\ last' = [Did("AfterAttempt", a, req)
                               EXCEPT !.seg = s, !.consulted = TRUE, !.handle = got.as,
                                      !.panic = IF o.err # NilErr /\ got.as = NoHandle
                                                THEN "nil pointer dereference"
                                                ELSE NilErr]

\* Variant of afterAttempt: resolves the segment from the plan's context
\* instead of the request's.
afterAttempt_PlanCtx(req, a, o) ==
    afterAttemptOn(GetSegment(plan.ctx), req, a, o)

\* Variant of afterAttempt: closes the segment begun most recently ("the
\* current attempt") instead of the segment of the request the event carries.
afterAttempt_LatestSeg(req, a, o) ==
    afterAttemptOn(IF GetSegment(req.ctx) = NoSeg THEN NoSeg ELSE Len(segs), req, a, o)

\* Variant of afterAttempt: when the request's context carries no segment it
\* falls back on the segment of the plan's context.
afterAttempt_FallbackRoot(req, a, o) ==
    afterAttemptOn(IF GetSegment(req.ctx) = NoSeg
                   THEN GetSegment(plan.ctx) ELSE GetSegment(req.ctx), req, a, o)

\* afterAttempt, with e.Request = req, e.Attempt = a and the outcome o set by
\* the pipeline.
afterAttempt(req, a, o) ==
    afterAttemptOn(GetSegment(req.ctx), req, a, o)

\* Variant of afterPlanTimeout: treats the plan timeout as the end of the
\* execution and closes the root segment.
afterPlanTimeout_Closes ==
    LET s == GetSegment(plan.ctx)
    IN IF s = NoSeg
       THEN /\ last' = Did("AfterPlanTimeout", attempt, request)
            /\ UNCHANGED segs
       ELSE /\ segs' = Close(AddMetadata(segs, s, "plan_timeout", TRUE), s, "Timeout")
            /\ last' = [Did("AfterPlanTimeout", attempt, request) EXCEPT !.seg = s]

\* Variant of afterPlanTimeout: the plan timeout also cancels the attempt
\* segments still in progress under the root segment.
afterPlanTimeout_CancelsAttempts ==
    LET s == GetSegment(plan.ctx)
        marked == AddMetadata(segs, s, "plan_timeout", TRUE)
    IN IF s = NoSeg
       THEN /\ last' = Did("AfterPlanTimeout", attempt, request)
            /\ UNCHANGED segs
       ELSE /\ segs' = [t \in 1..Len(segs) |->
                          IF segs[t].parent = s /\ segs[t].InProgress
                          THEN Close(marked, t, "Timeout")[t]
                          ELSE marked[t]]
            /\ last' = [Did("AfterPlanTimeout", attempt, request) EXCEPT !.seg = s]

afterPlanTimeout ==
    LET s == GetSegment(plan.ctx)
    IN IF s = NoSeg
       THEN /\ last' = Did("AfterPlanTimeout", attempt, request)
            /\ UNCHANGED segs
       ELSE /\ segs' = AddMetadata(segs, s, "plan_timeout", TRUE)
            /\ last' = [Did("AfterPlanTimeout", attempt, request) EXCEPT !.seg = s]

(***************************************************************************)
(* Dispatch.                                                               *)
(***************************************************************************)
\* The fields of a request.Execution the pipeline hands to a handler.
Exec(req, a, w, o) ==
    [Request |-> req, Attempt |-> a, Wave |-> w,
     Response |-> o.resp, Err |-> o.err, Body |-> o.body]

\* The outcome fields of an execution e.
OutcomeOf(e) == [resp |-> e.Response, err |-> e.Err, body |-> e.Body]

\* Variant of Keeps: the handler clears the execution's terminal error.
Keeps_ClearsErr(e) ==
    /\ attempt' = e.Attempt
    /\ wave' = e.Wave
    /\ response' = e.Response
    /\ err' = NilErr
    /\ body' = e.Body

\* No handler assigns e.Attempt, e.Wave, e.Response, e.Err or e.Body: they
\* leave an invocation as the pipeline set them for it.
Keeps(e) ==
    /\ attempt' = e.Attempt
    /\ wave' = e.Wave
    /\ response' = e.Response
    /\ err' = e.Err
    /\ body' = e.Body

\* The events the handler supports, and other events httpx defines.
SupportedEvents == {"BeforeExecutionStart", "BeforeAttempt", "AfterAttempt",
                    "AfterPlanTimeout", "AfterExecutionEnd"}
UnsupportedEvents == {"BeforeReadBody", "AfterAttemptTimeout"}

\* A nil *httpx.HandlerGroup: a group is its nil flag and, per event, the
\* handlers pushed on it.
NilGroup ==
    [nil |-> TRUE, slots |-> [evt \in SupportedEvents \cup UnsupportedEvents |-> << >>]]

\* Variant of the default arm: closes the segment of the plan's context
\* before it panics.
unsupportedEvent_ClosesFirst(evt, e) ==
    /\ last' = [Did(evt, e.Attempt, e.Request)
                  EXCEPT !.panic = "httpxxray: unsupported event"]
    /\ segs' = IF GetSegment(plan.ctx) # NoSeg
               THEN Close(segs, GetSegment(plan.ctx), e.Err)
               ELSE segs
    /\ Keeps(e)
    /\ request' = e.Request
    /\ UNCHANGED << plan, es, log, gotConn >>

\* The default arm of Handle's switch: panic("httpxxray: unsupported event").
unsupportedEvent(evt, e) ==
    /\ last' = [Did(evt, e.Attempt, e.Request)
                  EXCEPT !.panic = "httpxxray: unsupported event"]
    /\ Keeps(e)
    /\ request' = e.Request
    /\ UNCHANGED << plan, es, segs, log, gotConn >>

\* handler.Handle(evt, e)
Handle(evt, e) ==
    CASE evt = "BeforeExecutionStart" ->
            /\ beforeExecutionStart
            /\ Keeps(e)
            /\ request' = e.Request
            /\ UNCHANGED << es, gotConn >>
      [] evt = "BeforeAttempt" ->
            /\ beforeAttempt(e.Request, e.Attempt)
            /\ Keeps(e)
            /\ UNCHANGED << plan, gotConn >>
      [] evt = "AfterAttempt" ->
            /\ afterAttempt(e.Request, e.Attempt, OutcomeOf(e))
            /\ Keeps(e)
            /\ request' = e.Request
            /\ UNCHANGED << plan, es, log >>
      [] evt = "AfterPlanTimeout" ->
            /\ afterPlanTimeout
            /\ Keeps(e)
            /\ request' = e.Request
            /\ UNCHANGED << plan, es, log, gotConn >>
      [] evt = "AfterExecutionEnd" ->
            /\ afterExecutionEnd(OutcomeOf(e))
            /\ Keeps(e)
            /\ request' = e.Request
            /\ UNCHANGED << plan, es, log, gotConn >>
      [] OTHER -> unsupportedEvent(evt, e)

(***************************************************************************)
(* Handlers invoked concurrently: the code of each handler as the sequence *)
(* of its steps on shared objects.                                         *)
(***************************************************************************)
\* The invocations: execution-start, the two racing attempts (before-attempt
\* then after-attempt of each), the plan timeout and execution-end.
Racers == {"attempt0", "attempt1"}
Threads == {"start", "timeout", "end"} \cup Racers

\* e.Attempt in the invocations of a racing attempt, and the handle
\* newClientTrace makes in its before-attempt.
IndexOf == [attempt0 |-> 0, attempt1 |-> 1]
NewHandle == [attempt0 |-> 1, attempt1 |-> 2]

\* The spans: the root span and the span of each racing attempt.
Spans == {"root"} \cup Racers

\* One step: its kind, the span it acts on and the source text.
\*   "lock", "unlock"  seg.Lock(), seg.Unlock()
\*   "write"           assignment to fields of the span
\*   "sdk"             a method of the SDK that locks the span itself
\*   "backend"         a method of the SDK that takes no lock
\*   "assign"          assignment to a field of the execution
\*   "load", "create", "grow", "store", "entry"   putAttemptState
\*   "get"             getAttemptState
Op(kind, span, text) == [kind |-> kind, span |-> span, text |-> text]

\* The initial values of the invocations' state.
ConcurrentInit ==
    /\ pc = [t \in Threads |-> 1]
    /\ locks = [s \in Spans |-> {}]
    /\ heap = [key |-> 0, objs |-> << >>]
    /\ loc = [t \in Threads |->
                [my |-> 0, tmp |-> << >>, assign |-> FALSE, got |-> NoHandle,
                 panic |-> NilErr]]

\* The exercises of single parts have not begun.
AsideInit ==
    /\ stored = << >>
    /\ handlers = NilGroup
    /\ logger = "mock"
    /\ ConcurrentInit

(***************************************************************************)
(* The httpx pipeline firing the events.                                   *)
(***************************************************************************)
\* The execution as it stands, with the outcome fields as they are.
Current == Exec(request, attempt, wave,
                [resp |-> response, err |-> err, body |-> body])

Init ==
    /\ \E amb \in BOOLEAN, h \in PlanHosts :
          plan = [ctx |-> IF amb THEN AmbientCtx ELSE BareCtx,
                  Host |-> h.Host, URLHost |-> h.URLHost]
    /\ request = NilRequest
    /\ attempt = 0
    /\ wave = 0
    /\ response = NoResponse
    /\ err = NilErr
    /\ body = NilBody
    /\ es = NoState
    /\ segs = << >>
    /\ log = << >>
    /\ gotConn = << >>
    /\ phase = "new"
    /\ started = 0
    /\ reqs = << >>
    /\ concluded = {}
    /\ timedOut = FALSE
    /\ entry = Current
    /\ last = [n |-> 0, evt |-> "none", attempt |-> 0, req |-> NilRequest,
               seg |-> NoSeg, opened |-> FALSE, consulted |-> FALSE,
               handle |-> NoHandle, panic |-> NilErr, panicIdx |-> NoIndex]
    /\ AsideInit

\* Handle(httpx.BeforeExecutionStart, e)
ExecutionStart ==
    /\ phase = "new"
    /\ phase' = "running"
    /\ entry' = Current
    /\ Handle("BeforeExecutionStart", Current)
    /\ UNCHANGED << started, reqs, concluded, timedOut >>
    /\ UNCHANGED aside

\* The pipeline builds the request of the next attempt, from the plan's
\* context or from a context of its own, and fires BeforeAttempt.  A new wave
\* starts when no earlier attempt is still running; otherwise the attempt
\* races the running ones.
StartAttempt ==
    /\ phase = "running"
    /\ started < MaxAttempts
    /\ \E fromPlan \in BOOLEAN :
          LET req == NewRequest(IF fromPlan THEN plan.ctx ELSE BareCtx)
              w   == IF started > 0 /\ concluded = 0..(started - 1)
                     THEN wave + 1 ELSE wave
              e   == [Current EXCEPT !.Request = req, !.Attempt = started, !.Wave = w]
          IN /\ entry' = e
             /\ Handle("BeforeAttempt", e)
             /\ reqs' = Append(reqs, request')
    /\ started' = started + 1
    /\ UNCHANGED << phase, concluded, timedOut >>
    /\ UNCHANGED aside

\* The pipeline builds a request from a bare context and the BeforeAttempt
\* step is skipped for it: AfterAttempt will fire alone.
SkipAttempt ==
    /\ phase = "running"
    /\ started < MaxAttempts
    /\ attempt' = started
    /\ request' = NewRequest(BareCtx)
    /\ reqs' = Append(reqs, request')
    /\ started' = started + 1
    /\ entry' = [Current EXCEPT !.Request = request', !.Attempt = started]
    /\ last' = Did("skipped", started, request')
    /\ UNCHANGED << plan, wave, response, err, body, es, segs, log, gotConn,
                    phase, concluded, timedOut >>
    /\ UNCHANGED aside

\* An attempt ends, in any order: the pipeline puts the attempt's request,
\* index and outcome on the execution and fires AfterAttempt.  A panic of the
\* handler aborts the execution.
EndAttempt ==
    /\ phase = "running"
    /\ \E a \in (0..(started - 1)) \ concluded, o \in Outcomes :
          LET e == Exec(reqs[a + 1], a, wave, o)
          IN /\ entry' = e
             /\ Handle("AfterAttempt", e)
             /\ concluded' = concluded \cup {a}
    /\ phase' = IF last'.panic # NilErr THEN "aborted" ELSE phase
    /\ UNCHANGED << started, reqs, timedOut >>
    /\ UNCHANGED aside

\* Handle(httpx.AfterPlanTimeout, e)
PlanTimeout ==
    /\ phase = "running"
    /\ ~timedOut
    /\ timedOut' = TRUE
    /\ entry' = Current
    /\ Handle("AfterPlanTimeout", Current)
    /\ UNCHANGED << phase, started, reqs, concluded >>
    /\ UNCHANGED aside

\* The execution ends with its final outcome, whether or not every attempt
\* was concluded, and the pipeline fires AfterExecutionEnd.
ExecutionEnd ==
    /\ phase = "running"
    /\ phase' = "ended"
    /\ \E o \in Outcomes :
          LET e == Exec(request, attempt, wave, o)
          IN /\ entry' = e
             /\ Handle("AfterExecutionEnd", e)
    /\ UNCHANGED << started, reqs, concluded, timedOut >>
    /\ UNCHANGED aside

Next ==
    \/ ExecutionStart
    \/ StartAttempt
    \/ SkipAttempt
    \/ EndAttempt
    \/ PlanTimeout
    \/ ExecutionEnd

Spec == Init /\ [][Next]_vars

(***************************************************************************)
(* A collaborator that replaces the execution state right after a          *)
(* BeforeAttempt that opened a span, by e.SetValue(executionStateKey, ...):*)
(* with nil, or with an execution state that has no attempt entry.         *)
(***************************************************************************)
Tamper ==
    /\ phase = "running"
    /\ last.evt = "BeforeAttempt"
    /\ last.opened
    /\ \E st \in {NoState, [present |-> TRUE, as |-> << >>]} :
          /\ es # st
          /\ es' = st
    /\ UNCHANGED << plan, request, attempt, wave, response, err, body, segs, log,
                    gotConn, phase, started, reqs, concluded, timedOut, entry, last >>
    /\ UNCHANGED aside

NextTamper ==
    \/ Next
    \/ Tamper

SpecTamper == Init /\ [][NextTamper]_vars

(***************************************************************************)
(* A pipeline that also delivers events the handler was not installed for. *)
(***************************************************************************)
Unsupported ==
    /\ phase \in {"new", "running"}
    /\ \E evt \in UnsupportedEvents :
          /\ entry' = Current
          /\ Handle(evt, Current)
    /\ phase' = "aborted"
    /\ UNCHANGED << started, reqs, concluded, timedOut >>
    /\ UNCHANGED aside

NextDispatch ==
    \/ Next
    \/ Unsupported

SpecDispatch == Init /\ [][NextDispatch]_vars

(***************************************************************************)
(* The annotators applied on their own to a fresh segment, as the unit     *)
(* tests of setSegmentHTTPResponse and setSegmentBodyLen do, for every     *)
(* status code and every body length up to MaxBodyLen.                     *)
(***************************************************************************)
MaxBodyLen == 3

StatusCodes == 100..599

InitAnnotate ==
    /\ plan = [ctx |-> BareCtx, Host |-> "", URLHost |-> "example.com"]
    /\ request = NilRequest
    /\ attempt = 0
    /\ wave = 0
    /\ response \in StatusCodes \cup {NoResponse}
    /\ err = NilErr
    /\ body \in {NilBody} \cup 0..MaxBodyLen
    /\ es = NoState
    /\ segs = << NewSegment(BareCtx, "Test") >>
    /\ log = << >>
    /\ gotConn = << >>
    /\ phase = "fresh"
    /\ started = 0
    /\ reqs = << >>
    /\ concluded = {}
    /\ timedOut = FALSE
    /\ entry = Current
    /\ last = [n |-> 0, evt |-> "none", attempt |-> 0, req |-> NilRequest,
               seg |-> NoSeg, opened |-> FALSE, consulted |-> FALSE,
               handle |-> NoHandle, panic |-> NilErr, panicIdx |-> NoIndex]
    /\ AsideInit

\* setSegmentHTTPResponse(seg, resp)
AnnotateResponse ==
    /\ phase = "fresh"
    /\ segs' = setSegmentHTTPResponse(segs, 1, response)
    /\ phase' = "response"
    /\ UNCHANGED << plan, request, attempt, wave, response, err, body, es, log,
                    gotConn, started, reqs, concluded, timedOut, entry, last >>
    /\ UNCHANGED aside

\* setSegmentBodyLen(seg, body)
AnnotateBodyLen ==
    /\ phase = "fresh"
    /\ segs' = setSegmentBodyLen(segs, 1, body)
    /\ phase' = "body"
    /\ UNCHANGED << plan, request, attempt, wave, response, err, body, es, log,
                    gotConn, started, reqs, concluded, timedOut, entry, last >>
    /\ UNCHANGED aside

NextAnnotate ==
    \/ AnnotateResponse
    \/ AnnotateBodyLen

SpecAnnotate == InitAnnotate /\ [][NextAnnotate]_vars

(***************************************************************************)
(* Installation: OnHandlers on a handler group that may already hold other *)
(* handlers, with or without a logger, and then an execution-start that    *)
(* cannot open its span, dispatched to the handlers of that slot.          *)
(***************************************************************************)
\* The handler OnHandlers creates, and a handler registered by someone else.
TheHandler == "httpxxray"
OtherHandler == "other"

\* handlers.PushBack(evt, h)
PushBack(hg, evt, h) == [hg EXCEPT !.slots[evt] = Append(@, h)]

\* Variant of OnHandlers: the handler is not registered for the plan timeout.
OnHandlers_FourSlots(hg, lg) ==
    [handlers |->
        PushBack(PushBack(PushBack(PushBack(hg,
            "BeforeExecutionStart", TheHandler),
            "BeforeAttempt", TheHandler),
            "AfterAttempt", TheHandler),
            "AfterExecutionEnd", TheHandler),
     logger |-> IF lg = NilLogger THEN "NopLogger{}" ELSE lg]

\* OnHandlers(handlers, logger) for a non-nil group: the group it returns and
\* the logger of the handler it registered.
OnHandlers(hg, lg) ==
    [handlers |->
        PushBack(PushBack(PushBack(PushBack(PushBack(hg,
            "BeforeExecutionStart", TheHandler),
            "BeforeAttempt", TheHandler),
            "AfterAttempt", TheHandler),
            "AfterPlanTimeout", TheHandler),
            "AfterExecutionEnd", TheHandler),
     logger |-> IF lg = NilLogger THEN "NopLogger{}" ELSE lg]

InitInstall ==
    /\ plan = [ctx |-> BareCtx, Host |-> "", URLHost |-> "example.com"]
    /\ request = NilRequest
    /\ attempt = 0
    /\ wave = 0
    /\ response = NoResponse
    /\ err = NilErr
    /\ body = NilBody
    /\ es = NoState
    /\ segs = << >>
    /\ log = << >>
    /\ gotConn = << >>
    /\ phase = "install"
    /\ started = 0
    /\ reqs = << >>
    /\ concluded = {}
    /\ timedOut = FALSE
    /\ entry = Current
    /\ last = [n |-> 0, evt |-> "none", attempt |-> 0, req |-> NilRequest,
               seg |-> NoSeg, opened |-> FALSE, consulted |-> FALSE,
               handle |-> NoHandle, panic |-> NilErr, panicIdx |-> NoIndex]
    /\ stored = << >>
    /\ ConcurrentInit
    /\ handlers \in {NilGroup}
                    \cup { [nil |-> FALSE, slots |-> sl] :
                             sl \in [SupportedEvents \cup UnsupportedEvents
                                       -> {<< >>, << OtherHandler >>}] }
    /\ logger \in {NilLogger, "&NopLogger{}", "mock"}

\* OnHandlers(handlers, logger)
Install ==
    /\ phase = "install"
    /\ IF handlers.nil
       THEN /\ last' = [Did("OnHandlers", attempt, request)
                          EXCEPT !.panic = "httpxxray: nil handler group"]
            /\ phase' = "aborted"
            /\ UNCHANGED << handlers, logger >>
       ELSE /\ handlers' = OnHandlers(handlers, logger).handlers
            /\ logger' = OnHandlers(handlers, logger).logger
            /\ last' = Did("OnHandlers", attempt, request)
            /\ phase' = "installed"
    /\ UNCHANGED << plan, request, attempt, wave, response, err, body, es, segs,
                    log, gotConn, started, reqs, concluded, timedOut, entry, stored,
                    pc, locks, heap, loc >>

\* The pipeline dispatches BeforeExecutionStart to the handlers of that slot;
\* the plan's context carries no trace, so the installed handler cannot open
\* the root span and calls its logger.
FailToOpen ==
    /\ phase = "installed"
    /\ \E k \in 1..Len(handlers.slots["BeforeExecutionStart"]) :
          handlers.slots["BeforeExecutionStart"][k] = TheHandler
    /\ phase' = "new"
    /\ entry' = Current
    /\ Handle("BeforeExecutionStart", Current)
    /\ UNCHANGED << started, reqs, concluded, timedOut, aside >>

NextInstall ==
    \/ Install
    \/ FailToOpen

SpecInstall == InitInstall /\ [][NextInstall]_vars

(***************************************************************************)
(* The attempt state store exercised on its own: puts at arbitrary         *)
(* indices, in order, skipping or repeated, and gets, on one execution, one*)
(* call at a time, as the unit tests of putAttemptState do.                *)
(***************************************************************************)
MaxIndex == 2

\* The *xray.HTTPSubsegments handles the exercise puts.
StoreHandles == {1, 2}

InitStore ==
    /\ plan = [ctx |-> BareCtx, Host |-> "", URLHost |-> "example.com"]
    /\ request = NilRequest
    /\ attempt = 0
    /\ wave = 0
    /\ response = NoResponse
    /\ err = NilErr
    /\ body = NilBody
    /\ es = NoState
    /\ segs = << >>
    /\ log = << >>
    /\ gotConn = << >>
    /\ phase = "store"
    /\ started = 0
    /\ reqs = << >>
    /\ concluded = {}
    /\ timedOut = FALSE
    /\ entry = Current
    /\ last = [n |-> 0, evt |-> "none", attempt |-> 0, req |-> NilRequest,
               seg |-> NoSeg, opened |-> FALSE, consulted |-> FALSE,
               handle |-> NoHandle, panic |-> NilErr, panicIdx |-> NoIndex]
    /\ AsideInit

\* e.Attempt = a; putAttemptState(e, attemptState{httpSubsegments: h}).  The
\* invocation counter alternates, which keeps the exercise finite.
PutState ==
    /\ phase = "store"
    /\ \E a \in 0..MaxIndex, h \in StoreHandles :
          /\ attempt' = a
          /\ es' = putAttemptState(es, a, h)
          /\ stored' = [i \in (DOMAIN stored) \cup {a} |->
                          IF i = a THEN h ELSE stored[i]]
          /\ last' = [Did("put", a, request) EXCEPT !.n = 1 - last.n, !.handle = h]
    /\ entry' = [Current EXCEPT !.Attempt = attempt']
    /\ UNCHANGED << plan, request, wave, response, err, body, segs, log, gotConn,
                    phase, started, reqs, concluded, timedOut, handlers, logger,
                    pc, locks, heap, loc >>

\* e.Attempt = a; getAttemptState(e)
GetState ==
    /\ phase = "store"
    /\ \E a \in 0..MaxIndex :
          LET got == getAttemptState(es, a)
          IN /\ attempt' = a
             /\ last' = [Did("get", a, request)
                           EXCEPT !.n = 1 - last.n, !.consulted = TRUE,
                                  !.handle = got.as, !.panic = got.err,
                                  !.panicIdx = got.attempt]
    /\ entry' = [Current EXCEPT !.Attempt = attempt']
    /\ UNCHANGED << plan, request, wave, response, err, body, es, segs, log,
                    gotConn, phase, started, reqs, concluded, timedOut, stored,
                    handlers, logger, pc, locks, heap, loc >>

NextStore ==
    \/ PutState
    \/ GetState

SpecStore == InitStore /\ [][NextStore]_vars

(***************************************************************************)
(* The handlers' code, step by step.                                       *)
(***************************************************************************)
\* A setSegmentHTTPResponse that writes before it locks.
setSegmentHTTPResponseOps_WriteFirst(s) ==
    << Op("write", s, "respData.Status, respData.ContentLength, seg.Error, seg.Throttle, seg.Fault"),
       Op("lock", s, "seg.Lock()"),
       Op("unlock", s, "defer seg.Unlock()") >>

\* setSegmentHTTPResponse(seg, resp) for a response that is not nil.
setSegmentHTTPResponseOps(s) ==
    << Op("lock", s, "seg.Lock()"),
       Op("write", s, "respData.Status, respData.ContentLength, seg.Error, seg.Throttle, seg.Fault"),
       Op("unlock", s, "defer seg.Unlock()") >>

\* putAttemptState(e, as)
putAttemptStateOps(s) ==
    << Op("load", s, "es, _ := e.Value(executionStateKey).(*executionState)"),
       Op("create", s, "if es == nil { es = &executionState{}; e.SetValue(executionStateKey, es) }"),
       Op("grow", s, "append(es.as, attemptState{}) / tmp := make(...); copy(tmp, es.as)"),
       Op("store", s, "es.as = ..."),
       Op("entry", s, "es.as[e.Attempt] = as") >>

\* beforeExecutionStart, when the subsegment is begun.
beforeExecutionStartOps ==
    << Op("backend", "root", "xray.BeginSubsegment(e.Plan.Context(), host(e.Plan))"),
       Op("lock", "root", "seg.Lock()"),
       Op("write", "root", "seg.Namespace"),
       Op("assign", "root", "e.Plan = e.Plan.WithContext(ctx)"),
       Op("unlock", "root", "defer seg.Unlock()") >>

\* A beforeAttempt that adds the attempt's metadata after it locked the span.
beforeAttemptOps_AnnotatesUnderLock(s) ==
    << Op("sdk", "root", "xray.BeginSubsegment(e.Request.Context(), ...)"),
       Op("lock", s, "seg.Lock()"),
       Op("sdk", s, "setSegmentAttemptMetadata: seg.AddMetadataToNamespace"),
       Op("write", s, "reqData.Method, reqData.URL"),
       Op("backend", s, "seg.DownstreamHeader()") >>
    \o putAttemptStateOps(s)
    \o << Op("assign", s, "e.Request = req"),
          Op("unlock", s, "defer seg.Unlock()") >>

\* beforeAttempt, when the subsegment is begun under the root span.
beforeAttemptOps(s) ==
    << Op("sdk", "root", "xray.BeginSubsegment(e.Request.Context(), ...)"),
       Op("sdk", s, "setSegmentAttemptMetadata: seg.AddMetadataToNamespace"),
       Op("lock", s, "seg.Lock()"),
       Op("write", s, "reqData.Method, reqData.URL"),
       Op("backend", s, "seg.DownstreamHeader()") >>
    \o putAttemptStateOps(s)
    \o << Op("assign", s, "e.Request = req"),
          Op("unlock", s, "defer seg.Unlock()") >>

\* afterAttempt, when the request's context carries the attempt's span.
afterAttemptOps(s) ==
    << Op("get", s, "getAttemptState(e)") >>
    \o setSegmentHTTPResponseOps(s)
    \o << Op("sdk", s, "setSegmentBodyLen: seg.AddMetadataToNamespace"),
          Op("backend", s, "as.httpSubsegments.GotConn(nil, e.Err)"),
          Op("sdk", s, "defer seg.Close(e.Err)") >>

\* afterPlanTimeout, when the plan's context carries the root span.
afterPlanTimeoutOps ==
    << Op("sdk", "root", "seg.AddMetadataToNamespace(httpx, plan_timeout, true)") >>

\* afterExecutionEnd, when the plan's context carries the root span.
afterExecutionEndOps ==
    setSegmentHTTPResponseOps("root")
    \o << Op("sdk", "root", "setSegmentBodyLen: seg.AddMetadataToNamespace"),
          Op("sdk", "root", "setSegmentExecutionMetadata: attempts"),
          Op("sdk", "root", "setSegmentExecutionMetadata: waves"),
          Op("sdk", "root", "defer seg.Close(e.Err)") >>

\* The code each invocation runs.
Program(t) ==
    CASE t = "start"   -> beforeExecutionStartOps
      [] t = "timeout" -> afterPlanTimeoutOps
      [] t = "end"     -> afterExecutionEndOps
      [] OTHER         -> beforeAttemptOps(t) \o afterAttemptOps(t)

\* Invocation t has returned (or panicked out of its last deferred call).
Done(t) == pc[t] > Len(Program(t))

\* The step invocation t is at.
At(t) == Program(t)[pc[t]]

\* Invocation t can take a step: execution-start is handled before all else.
Runnable(t) == ~Done(t) /\ (t = "start" \/ Done("start"))

Goto(t, k) == pc' = [pc EXCEPT ![t] = k]

\* The variables the concurrent invocations leave alone.
rest == << plan, request, attempt, wave, response, err, body, es, segs, log,
           gotConn, phase, started, reqs, concluded, timedOut, entry, last,
           stored, handlers, logger >>

\* The key holds no executionState.
NilState == 0

InitConcurrent ==
    /\ plan = [ctx |-> AmbientCtx, Host |-> "", URLHost |-> "example.com"]
    /\ request = NilRequest
    /\ attempt = 0
    /\ wave = 0
    /\ response = NoResponse
    /\ err = NilErr
    /\ body = NilBody
    /\ es = NoState
    /\ segs = << >>
    /\ log = << >>
    /\ gotConn = << >>
    /\ phase = "concurrent"
    /\ started = 0
    /\ reqs = << >>
    /\ concluded = {}
    /\ timedOut = FALSE
    /\ entry = Current
    /\ last = [n |-> 0, evt |-> "none", attempt |-> 0, req |-> NilRequest,
               seg |-> NoSeg, opened |-> FALSE, consulted |-> FALSE,
               handle |-> NoHandle, panic |-> NilErr, panicIdx |-> NoIndex]
    /\ AsideInit

\* seg.Lock(): waits until the span's lock is free.
Lock ==
    \E t \in Threads :
        /\ Runnable(t)
        /\ At(t).kind = "lock"
        /\ locks[At(t).span] = {}
        /\ locks' = [locks EXCEPT ![At(t).span] = {t}]
        /\ Goto(t, pc[t] + 1)
        /\ UNCHANGED << heap, loc, rest >>

\* seg.Unlock(), deferred: it also runs when the invocation panics, which
\* then ends.
Unlock ==
    \E t \in Threads :
        /\ Runnable(t)
        /\ At(t).kind = "unlock"
        /\ locks' = [locks EXCEPT ![At(t).span] = @ \ {t}]
        /\ Goto(t, IF loc[t].panic # NilErr THEN Len(Program(t)) + 1 ELSE pc[t] + 1)
        /\ UNCHANGED << heap, loc, rest >>

\* An assignment to fields of the span.
Write ==
    \E t \in Threads :
        /\ Runnable(t)
        /\ At(t).kind = "write"
        /\ Goto(t, pc[t] + 1)
        /\ UNCHANGED << locks, heap, loc, rest >>

\* A method of the SDK that locks the span for its own duration: it waits
\* until the lock is free.
SDKCall ==
    \E t \in Threads :
        /\ Runnable(t)
        /\ At(t).kind = "sdk"
        /\ locks[At(t).span] = {}
        /\ Goto(t, pc[t] + 1)
        /\ UNCHANGED << locks, heap, loc, rest >>

\* A method of the SDK that takes no lock.
BackendCall ==
    \E t \in Threads :
        /\ Runnable(t)
        /\ At(t).kind = "backend"
        /\ Goto(t, pc[t] + 1)
        /\ UNCHANGED << locks, heap, loc, rest >>

\* An assignment to e.Plan or e.Request.
Assign ==
    \E t \in Threads :
        /\ Runnable(t)
        /\ At(t).kind = "assign"
        /\ Goto(t, pc[t] + 1)
        /\ UNCHANGED << locks, heap, loc, rest >>

\* putAttemptState: es, _ := e.Value(executionStateKey).(*executionState)
PutLoad ==
    \E t \in Threads :
        /\ Runnable(t)
        /\ At(t).kind = "load"
        /\ loc' = [loc EXCEPT ![t].my = heap.key]
        /\ Goto(t, pc[t] + 1)
        /\ UNCHANGED << locks, heap, rest >>

\* putAttemptState: if es == nil { es = &executionState{}; e.SetValue(...) }
PutCreate ==
    \E t \in Threads :
        /\ Runnable(t)
        /\ At(t).kind = "create"
        /\ IF loc[t].my = NilState
           THEN /\ heap' = [key |-> Len(heap.objs) + 1, objs |-> Append(heap.objs, << >>)]
                /\ loc' = [loc EXCEPT ![t].my = Len(heap.objs) + 1]
           ELSE UNCHANGED << heap, loc >>
        /\ Goto(t, pc[t] + 1)
        /\ UNCHANGED << locks, rest >>

\* putAttemptState: the slice that is to replace es.as, computed from the
\* slice read now.
PutGrow ==
    \E t \in Threads :
        /\ Runnable(t)
        /\ At(t).kind = "grow"
        /\ LET cur == heap.objs[loc[t].my]
               a   == IndexOf[t]
           IN loc' = [loc EXCEPT
                        ![t].assign = Len(cur) <= a,
                        ![t].tmp = IF Len(cur) = a
                                   THEN Append(cur, NoHandle)
                                   ELSE IF Len(cur) < a
                                        THEN [i \in 1..(a + 1) |->
                                                IF i <= Len(cur) THEN cur[i] ELSE NoHandle]
                                        ELSE cur]
        /\ Goto(t, pc[t] + 1)
        /\ UNCHANGED << locks, heap, rest >>

\* putAttemptState: es.as = append(...) or es.as = tmp, when one applies.
PutStore ==
    \E t \in Threads :
        /\ Runnable(t)
        /\ At(t).kind = "store"
        /\ heap' = IF loc[t].assign
                   THEN [heap EXCEPT !.objs[loc[t].my] = loc[t].tmp]
                   ELSE heap
        /\ Goto(t, pc[t] + 1)
        /\ UNCHANGED << locks, loc, rest >>

\* putAttemptState: es.as[e.Attempt] = as; an index past the slice's length
\* panics, and the deferred seg.Unlock() is what runs next.
PutEntry ==
    \E t \in Threads :
        /\ Runnable(t)
        /\ At(t).kind = "entry"
        /\ IF Len(heap.objs[loc[t].my]) > IndexOf[t]
           THEN /\ heap' = [heap EXCEPT !.objs[loc[t].my][IndexOf[t] + 1] = NewHandle[t]]
                /\ Goto(t, pc[t] + 1)
                /\ UNCHANGED loc
           ELSE /\ loc' = [loc EXCEPT ![t].panic = "index out of range"]
                /\ Goto(t, Len(beforeAttemptOps(t)))
                /\ UNCHANGED heap
        /\ UNCHANGED << locks, rest >>

\* The executionState the execution's key holds, as getAttemptState reads it.
Keyed ==
    IF heap.key = NilState THEN NoState
    ELSE [present |-> TRUE, as |-> heap.objs[heap.key]]

\* getAttemptState(e) in afterAttempt; on an error afterAttempt panics and the
\* deferred seg.Close(e.Err), its last step, is what runs next.
Get ==
    \E t \in Threads :
        /\ Runnable(t)
        /\ At(t).kind = "get"
        /\ LET got == getAttemptState(Keyed, IndexOf[t])
           IN /\ loc' = [loc EXCEPT ![t].got = got.as, ![t].panic = got.err]
              /\ Goto(t, IF got.err # NilErr THEN Len(Program(t)) ELSE pc[t] + 1)
        /\ UNCHANGED << locks, heap, rest >>

NextConcurrent ==
    \/ Lock
    \/ Unlock
    \/ Write
    \/ SDKCall
    \/ BackendCall
    \/ Assign
    \/ PutLoad
    \/ PutCreate
    \/ PutGrow
    \/ PutStore
    \/ PutEntry
    \/ Get

SpecConcurrent == InitConcurrent /\ [][NextConcurrent]_vars

\* Every invocation that can take a step eventually takes one.
SpecConcurrentFair == SpecConcurrent /\ WF_vars(NextConcurrent)


(***************************************************************************)
(* Properties.                                                             *)
(***************************************************************************)
\* The root span: the segment the plan's context carries once
\* BeforeExecutionStart has begun it.
Root == plan.ctx.seg

\* The attempt span of attempt i: the segment carried by the request the
\* pipeline holds for that attempt (NoSeg when BeforeAttempt began none).
AttemptSpan(i) == reqs[i + 1].ctx.seg

\* The handle BeforeAttempt made for attempt i: newClientTrace binds it to the
\* context that carries the attempt span, so it is identified by that span.
HandleOf(i) == AttemptSpan(i)

Attempts == 0..(started - 1)

\* The step handles event evt.
Handles(evt) == last'.n = last.n + 1 /\ last'.evt = evt

\* C1: when execution-start opened the root span, handling execution-end
\* leaves the root span closed, whether or not every attempt span has been
\* closed by an after-attempt.
C1_RootClosedAtEnd ==
    (last.evt = "AfterExecutionEnd" /\ Root # NoSeg) => ~segs[Root].InProgress

C1_Witness ==
    /\ last.evt = "AfterExecutionEnd"
    /\ Root # NoSeg
    /\ ~segs[Root].InProgress
    /\ \E i \in Attempts : AttemptSpan(i) # NoSeg /\ segs[AttemptSpan(i)].InProgress

\* C2: once execution-start has opened the root span it is in progress, it
\* stays in progress through every before-attempt, after-attempt and
\* after-plan-timeout, and only the handling of execution-end closes it.
C2_RootOpenUntilEnd ==
    [][ /\ (Handles("BeforeExecutionStart") /\ last'.opened)
             => (Root' # NoSeg /\ segs'[Root'].InProgress)
        /\ (Root # NoSeg /\ segs[Root].InProgress /\
            last'.evt \in {"BeforeAttempt", "AfterAttempt", "AfterPlanTimeout", "skipped"})
             => (Root' = Root /\ segs'[Root].InProgress)
        /\ (Root # NoSeg /\ segs[Root].InProgress /\ ~segs'[Root].InProgress)
             => Handles("AfterExecutionEnd")
      ]_vars

C2_Witness ==
    /\ last.evt = "AfterAttempt"
    /\ last.seg # NoSeg
    /\ timedOut
    /\ concluded = Attempts
    /\ started = MaxAttempts
    /\ Root # NoSeg
    /\ segs[Root].InProgress

\* C3: an after-attempt for attempt i closes exactly the span of attempt i
\* and leaves every other span as it was, whatever the order of completions.
C3_ClosesOwnSpanOnly ==
    [][ \A i \in Attempts :
          (Handles("AfterAttempt") /\ last'.attempt = i /\ AttemptSpan(i) # NoSeg)
            => /\ ~segs'[AttemptSpan(i)].InProgress
               /\ Len(segs') = Len(segs)
               /\ \A t \in (1..Len(segs)) \ {AttemptSpan(i)} :
                     segs'[t].InProgress = segs[t].InProgress
      ]_vars

\* Attempt 0 completes after the higher-indexed attempt 1 has closed, and an
\* attempt span is still open while another one is closed.
C3_Witness ==
    /\ last.evt = "AfterAttempt"
    /\ last.attempt = 0
    /\ 1 \in concluded
    /\ AttemptSpan(0) # NoSeg
    /\ AttemptSpan(1) # NoSeg
    /\ ~segs[AttemptSpan(0)].InProgress
    /\ ~segs[AttemptSpan(1)].InProgress

\* C4: when after-attempt for index i resolves a span, the handle it obtains
\* from the store, and forwards the error to, is the one before-attempt
\* stored for index i: never another attempt's, never an absent placeholder.
C4_HandleOfOwnIndex ==
    (last.evt = "AfterAttempt" /\ last.seg # NoSeg)
      => /\ last.consulted
         /\ last.panic = NilErr
         /\ last.handle # NoHandle
         /\ last.handle = HandleOf(last.attempt)
         /\ err # NilErr
              => /\ Len(gotConn) > 0
                 /\ gotConn[Len(gotConn)].handle = HandleOf(last.attempt)

C4_Witness ==
    /\ last.evt = "AfterAttempt"
    /\ last.attempt = 0
    /\ 1 \in concluded
    /\ AttemptSpan(1) # NoSeg
    /\ last.handle # NoHandle
    /\ last.handle = HandleOf(0)
    /\ err # NilErr
    /\ gotConn[Len(gotConn)].handle = HandleOf(0)

\* The error, fault and throttle flags of segment s in ss.
Flags(ss, s) == << ss[s].Error, ss[s].Fault, ss[s].Throttle >>

\* C5 as stated: an attempt that completes with a 4xx response has its error
\* flag set and its fault flag clear; one that completes with a terminal
\* error and no response has its fault flag set and its error flag clear; an
\* after-attempt changes no other span's flags.
C5_Original ==
    [][ \A i \in Attempts :
          (Handles("AfterAttempt") /\ last'.attempt = i /\ AttemptSpan(i) # NoSeg)
            => /\ (response' \div 100 = 4)
                    => (segs'[AttemptSpan(i)].Error /\ ~segs'[AttemptSpan(i)].Fault)
               /\ (response' = NoResponse /\ err' # NilErr)
                    => (segs'[AttemptSpan(i)].Fault /\ ~segs'[AttemptSpan(i)].Error)
               /\ \A t \in (1..Len(segs)) \ {AttemptSpan(i)} :
                     Flags(segs', t) = Flags(segs, t)
      ]_vars

\* C5 (amended): an attempt that completes with a 4xx response and no
\* terminal error has its error flag set and its fault flag clear; one that
\* completes with a terminal error and no response has its fault flag set and
\* its error flag clear; an after-attempt changes no other span's flags.
C5_OwnOutcomeFlags ==
    [][ \A i \in Attempts :
          (Handles("AfterAttempt") /\ last'.attempt = i /\ AttemptSpan(i) # NoSeg)
            => /\ (response' \div 100 = 4 /\ err' = NilErr)
                    => (segs'[AttemptSpan(i)].Error /\ ~segs'[AttemptSpan(i)].Fault)
               /\ (response' = NoResponse /\ err' # NilErr)
                    => (segs'[AttemptSpan(i)].Fault /\ ~segs'[AttemptSpan(i)].Error)
               /\ \A t \in (1..Len(segs)) \ {AttemptSpan(i)} :
                     Flags(segs', t) = Flags(segs, t)
      ]_vars

\* Attempt 1 ended with a 4xx response, then attempt 0 ended as redundant.
C5_Witness ==
    /\ last.evt = "AfterAttempt"
    /\ last.attempt = 0
    /\ 1 \in concluded
    /\ AttemptSpan(0) # NoSeg
    /\ AttemptSpan(1) # NoSeg
    /\ response = NoResponse
    /\ err = "Redundant"
    /\ segs[AttemptSpan(1)].Status = 404
    /\ Flags(segs, AttemptSpan(1)) = << TRUE, FALSE, FALSE >>
    /\ Flags(segs, AttemptSpan(0)) = << FALSE, TRUE, FALSE >>

\* C6: before-attempt and after-attempt never change the root span's flags,
\* and after execution-end the root span's flags are those of the final
\* response and terminal error alone.
C6_RootFlagsFromFinalOutcome ==
    [][ /\ (Root # NoSeg /\ last'.evt \in {"BeforeAttempt", "AfterAttempt"})
             => (Root' = Root /\ Flags(segs', Root) = Flags(segs, Root))
        /\ (Handles("AfterExecutionEnd") /\ Root # NoSeg)
             => /\ segs'[Root].Error    = (response' \div 100 = 4)
                /\ segs'[Root].Throttle = (response' = 429)
                /\ segs'[Root].Fault    = (response' \div 100 = 5 \/ err' # NilErr)
      ]_vars

\* The execution ended clean although one attempt span carries the error flag
\* and another the fault flag.
C6_Witness ==
    /\ last.evt = "AfterExecutionEnd"
    /\ Root # NoSeg
    /\ Flags(segs, Root) = << FALSE, FALSE, FALSE >>
    /\ \E i \in Attempts : AttemptSpan(i) # NoSeg /\ segs[AttemptSpan(i)].Error
    /\ \E i \in Attempts : AttemptSpan(i) # NoSeg /\ segs[AttemptSpan(i)].Fault

\* C7 as stated: every span the handler opened is closed exactly once: never
\* twice, and not left open once the execution has ended.
C7_Original ==
    \A s \in 1..Len(segs) :
        /\ segs[s].closes <= 1
        /\ phase = "ended" => (segs[s].closes = 1 /\ ~segs[s].InProgress)

\* C7 (amended): no span is closed twice; the root span is closed exactly
\* once, by execution-end; an attempt span is closed exactly once, by the
\* after-attempt of its attempt, and stays open when the execution ends
\* without that after-attempt.
C7_ClosedOnceByOwnEvent ==
    \A s \in 1..Len(segs) :
        /\ segs[s].closes <= 1
        /\ segs[s].InProgress <=> (segs[s].closes = 0)
        /\ s = Root \/ \E i \in Attempts : s = AttemptSpan(i)
        /\ s = Root => (segs[s].closes = 1 <=> phase = "ended")
        /\ \A i \in Attempts :
              s = AttemptSpan(i) => (segs[s].closes = 1 <=> i \in concluded)

C7_Witness ==
    /\ phase = "ended"
    /\ Root # NoSeg
    /\ segs[Root].closes = 1
    /\ \E i \in Attempts : AttemptSpan(i) # NoSeg /\ segs[AttemptSpan(i)].closes = 1
    /\ \E i \in Attempts : AttemptSpan(i) # NoSeg /\ segs[AttemptSpan(i)].InProgress

C9_FailureLeavesExecutionUnchanged ==
    [][ /\ (Handles("BeforeAttempt") /\ ~last'.opened)
             => /\ request' = last'.req
                /\ request'.traceHeader = NoSeg
                /\ request'.ctx \in {plan.ctx, BareCtx}
                /\ es' = es
                /\ plan' = plan
        /\ (Handles("BeforeExecutionStart") /\ ~last'.opened)
             => /\ plan' = plan
                /\ es' = es
                /\ request' = request
      ]_vars

\* Before-attempt failed for attempt 1 while the store holds attempt 0's entry.
C9_Witness ==
    /\ last.evt = "BeforeAttempt"
    /\ ~last.opened
    /\ last.attempt = 1
    /\ Root # NoSeg
    /\ es.present
    /\ Len(es.as) = 1
    /\ request = NewRequest(BareCtx)

C11_MissingStateIsFatal ==
    [][(Handles("AfterAttempt") /\ last'.seg # NoSeg
          /\ (~es.present \/ Len(es.as) <= last'.attempt))
       => /\ ~es.present =>
               /\ last'.panic = "httpxxray: no execution state"
               /\ last'.panicIdx = NoIndex
          /\ es.present =>
               /\ last'.panic = "httpxxray: no attempt state %d"
               /\ last'.panicIdx = attempt'
          /\ segs'[last'.seg].Status = segs[last'.seg].Status
          /\ segs'[last'.seg].body_length = segs[last'.seg].body_length
          /\ gotConn' = gotConn
          /\ phase' = "aborted"]_vars

C11_Witness ==
    /\ last.evt = "AfterAttempt"
    /\ last.seg # NoSeg
    /\ last.attempt = 1
    /\ es.present
    /\ last.panic = "httpxxray: no attempt state %d"
    /\ last.panicIdx = 1
    /\ response # NoResponse

C11_WitnessNoExecutionState ==
    /\ last.evt = "AfterAttempt"
    /\ last.seg # NoSeg
    /\ ~es.present
    /\ last.panic = "httpxxray: no execution state"

\* C12: when nobody but the handler writes the execution state, an
\* after-attempt that resolves a span from the request context of the event's
\* attempt finds an entry for that attempt index in the attempt state store,
\* and does not panic.
C12_SpanHasStateEntry ==
    [][(Handles("AfterAttempt") /\ last'.seg # NoSeg)
       => /\ last'.seg = AttemptSpan(attempt')
          /\ es.present
          /\ Len(es.as) > attempt'
          /\ last'.consulted
          /\ last'.panic = NilErr
          /\ phase' = "running"]_vars

\* The span of attempt 1 is resolved after attempt 0 was given no span, so
\* that the entry of attempt 1 was stored past a placeholder.
C12_Witness ==
    /\ last.evt = "AfterAttempt"
    /\ last.attempt = 1
    /\ last.seg # NoSeg
    /\ AttemptSpan(0) = NoSeg
    /\ last.panic = NilErr
    /\ Len(es.as) = 2

\* C13: dispatching an event tag other than the five supported ones panics
\* with "unsupported event" at once: no span is opened, closed or annotated,
\* nothing is logged, and the execution (plan, request, outcome fields,
\* indices, execution state) is left as it was.
C13_UnsupportedEventPanics ==
    [][(last'.n = last.n + 1 /\ last'.evt \in UnsupportedEvents)
       => /\ last'.panic = "httpxxray: unsupported event"
          /\ ~last'.opened
          /\ ~last'.consulted
          /\ segs' = segs
          /\ log' = log
          /\ gotConn' = gotConn
          /\ plan' = plan
          /\ request' = request
          /\ es' = es
          /\ << attempt', wave', response', err', body' >>
               = << attempt, wave, response, err, body >>]_vars

\* An unsupported event is dispatched while the root span and an attempt
\* span are in progress.
C13_Witness ==
    /\ last.evt \in UnsupportedEvents
    /\ last.panic = "httpxxray: unsupported event"
    /\ Root # NoSeg
    /\ segs[Root].InProgress
    /\ \E i \in Attempts : AttemptSpan(i) # NoSeg /\ segs[AttemptSpan(i)].InProgress

\* C14: no event the handler handles changes the execution's response,
\* terminal error, body, attempt index or wave index: after the handler they
\* are what the pipeline handed in.  The plan changes only at an
\* execution-start that opened the root span, and then only in its context;
\* the request differs from the one handed in only at a before-attempt that
\* opened a span; the execution state changes only at such a before-attempt,
\* and only in the entry of the event's attempt index.
C14_WritesOnlyPlanRequestState ==
    [][(last'.n = last.n + 1 /\ last'.evt \in SupportedEvents)
       => /\ attempt' = entry'.Attempt
          /\ wave' = entry'.Wave
          /\ response' = entry'.Response
          /\ err' = entry'.Err
          /\ body' = entry'.Body
          /\ plan' # plan =>
               /\ last'.evt = "BeforeExecutionStart"
               /\ last'.opened
               /\ plan' = [plan EXCEPT !.ctx = plan'.ctx]
          /\ request' # entry'.Request =>
               /\ last'.evt = "BeforeAttempt"
               /\ last'.opened
          /\ es' # es =>
               /\ last'.evt = "BeforeAttempt"
               /\ last'.opened
               /\ es'.present
               /\ \A i \in 1..Len(es.as) :
                     i # attempt' + 1 => es'.as[i] = es.as[i]]_vars

\* The second attempt, a retry in a second wave, ended with a response and a
\* terminal error, and its span was closed.
C14_Witness ==
    /\ last.evt = "AfterAttempt"
    /\ last.seg # NoSeg
    /\ attempt = 1
    /\ wave = 1
    /\ response # NoResponse
    /\ err # NilErr
    /\ entry.Err = err

\* C15: the HTTP-outcome annotation applied to a span with no flag set
\* yields, for a status code c: no flag for c in 200..399; for c in 400..499
\* the error flag, the throttle flag exactly when c = 429, and no fault flag;
\* for c in 500..599 the fault flag and neither error nor throttle; and no
\* flag for an absent response.
C15_FlagsByStatusClass ==
    phase = "response" =>
        LET c == response
            s == segs[1]
        IN /\ c \in 200..399 => (~s.Error /\ ~s.Fault /\ ~s.Throttle)
           /\ c \in 400..499 => (s.Error /\ (s.Throttle <=> c = 429) /\ ~s.Fault)
           /\ c \in 500..599 => (s.Fault /\ ~s.Error /\ ~s.Throttle)
           /\ c = NoResponse => (~s.Error /\ ~s.Fault /\ ~s.Throttle)

C15_Witness ==
    /\ phase = "response"
    /\ response = 429
    /\ segs[1].Error
    /\ segs[1].Throttle
    /\ segs[1].Status = 429

\* C16: the body-length annotation tells an absent body from an empty one:
\* a nil body writes no body-length annotation, a present body of n bytes
\* writes body-length n, in particular 0 for an empty body.
C16_BodyLenAbsentVsEmpty ==
    phase = "body" =>
        /\ body = NilBody => segs[1].body_length = NoMeta
        /\ body # NilBody => segs[1].body_length = body
        /\ body = 0 => segs[1].body_length # NoMeta

C16_Witness ==
    /\ phase = "body"
    /\ body = 0
    /\ segs[1].body_length = 0

\* C17: handling after-plan-timeout with a root span present sets the root
\* span's plan-timeout annotation to true and closes nothing: every span,
\* the root and the attempt spans, is in progress after the event exactly if
\* it was before; with no root span present the event changes no span and
\* logs nothing.
C17_PlanTimeoutOnlyAnnotates ==
    [][Handles("AfterPlanTimeout")
       => /\ log' = log
          /\ Len(segs') = Len(segs)
          /\ \A t \in 1..Len(segs) :
                /\ segs'[t].InProgress = segs[t].InProgress
                /\ segs'[t].closes = segs[t].closes
          /\ IF Root = NoSeg
             THEN segs' = segs
             ELSE /\ segs'[Root].plan_timeout = TRUE
                  /\ segs'[Root].InProgress]_vars

\* The plan timed out while the root span and an attempt span were in
\* progress.
C17_Witness ==
    /\ last.evt = "AfterPlanTimeout"
    /\ Root # NoSeg
    /\ segs[Root].plan_timeout
    /\ segs[Root].InProgress
    /\ \E i \in Attempts : AttemptSpan(i) # NoSeg /\ segs[AttemptSpan(i)].InProgress

\* C18: when execution-end closes the root span, the root span carries the
\* annotations attempts = the execution's attempt index + 1 and waves = the
\* execution's wave index + 1.
C18_AttemptsAndWavesCounts ==
    [][(Handles("AfterExecutionEnd") /\ Root # NoSeg)
       => /\ ~segs'[Root].InProgress
          /\ segs'[Root].attempts = entry'.Attempt + 1
          /\ segs'[Root].waves = entry'.Wave + 1]_vars

\* Two racing attempts of one wave.
C18_Witness ==
    /\ last.evt = "AfterExecutionEnd"
    /\ Root # NoSeg
    /\ ~segs[Root].InProgress
    /\ attempt = 1
    /\ wave = 0
    /\ segs[Root].attempts = 2
    /\ segs[Root].waves = 1

\* C19 as stated: the attempt span opened by before-attempt for attempt index
\* i is named "Attempt[i]".
C19_NamedAttemptBracketIndex ==
    \A i \in Attempts :
        AttemptSpan(i) # NoSeg
          => segs[AttemptSpan(i)].Name = "Attempt[" \o ToString(i) \o "]"

\* C20: every attempt span opened by before-attempt has the execution's root
\* span as its parent, under serial retries and under racing; no attempt span
\* has another attempt span as its parent.
C20_AttemptSpanParentIsRoot ==
    \A i \in Attempts :
        AttemptSpan(i) # NoSeg
          => /\ Root # NoSeg
             /\ segs[AttemptSpan(i)].parent = Root
             /\ \A j \in Attempts : segs[AttemptSpan(i)].parent # AttemptSpan(j)

\* A retry opened after the first attempt's span was closed.
C20_Witness ==
    /\ started = 2
    /\ AttemptSpan(0) # NoSeg
    /\ AttemptSpan(1) # NoSeg
    /\ AttemptSpan(0) # AttemptSpan(1)
    /\ wave = 1
    /\ ~segs[AttemptSpan(0)].InProgress
    /\ segs[AttemptSpan(1)].parent = Root

\* C24: in the ordinary course of operation the handler makes no log call:
\* when the plan's context carries an ambient trace and every attempt's
\* request was built from the plan's context, so that every span opens, the
\* log stays empty through every event sequence.
C24_NoLogInOrdinaryOperation ==
    (plan.ctx.ambient /\ \A i \in Attempts : reqs[i + 1].ctx.ambient)
        => log = << >>

\* An execution with a root span, two attempt spans, a plan timeout and a
\* final error has ended without a log call.
C24_Witness ==
    /\ phase = "ended"
    /\ plan.ctx.ambient
    /\ started = 2
    /\ \A i \in Attempts : AttemptSpan(i) # NoSeg
    /\ timedOut
    /\ err # NilErr
    /\ log = << >>

\* The pipeline has retried serially so far: every attempt after the first
\* began a new wave, after all earlier attempts had ended.
Serial == started = 0 \/ wave = started - 1

\* The attempt spans in progress.
OpenAttemptSpans ==
    { i \in Attempts : AttemptSpan(i) # NoSeg /\ segs[AttemptSpan(i)].InProgress }

\* C25: under serial retries, where after-attempt for attempt i is handled
\* before before-attempt for attempt i+1, at most one attempt span is in
\* progress at any time, and the spans of all earlier attempts are closed
\* when the span of the latest attempt is open.
C25_SerialOneOpenAttemptSpan ==
    Serial =>
        /\ Cardinality(OpenAttemptSpans) <= 1
        /\ \A i \in OpenAttemptSpans : i = started - 1

\* The retry's span is open and the first attempt's span is closed.
C25_Witness ==
    /\ Serial
    /\ started = 2
    /\ AttemptSpan(0) # NoSeg
    /\ ~segs[AttemptSpan(0)].InProgress
    /\ segs[AttemptSpan(0)].Fault
    /\ OpenAttemptSpans = {1}

\* C26 as stated, for executions in which every attempt got its span: the
\* attempts annotation execution-end writes on the root span equals the
\* number of attempts made, that is, of before-attempt events handled.
C26_AttemptsEqualsAttemptsMade ==
    [][(Handles("AfterExecutionEnd") /\ Root # NoSeg /\ started > 0
          /\ \A i \in Attempts : AttemptSpan(i) # NoSeg)
       => segs'[Root].attempts = started]_vars

\* A call of the store exercise was made in this step.
Calls(op) == last'.n # last.n /\ last'.evt = op

\* What getAttemptState returns for an entry that holds handle h.
Found(h) == [as |-> h, err |-> NilErr, attempt |-> NoIndex]

\* C21: after any sequence of puts at arbitrary indices, get(i) for every
\* index i that was put returns the handle most recently put at i; a put at
\* index i changes no other index's entry, removes none and never shrinks the
\* storage.
C21_GetReturnsLastPut ==
    /\ [](\A i \in DOMAIN stored : getAttemptState(es, i) = Found(stored[i]))
    /\ [][Calls("put")
          => /\ es'.present
             /\ Len(es'.as) >= Len(es.as)
             /\ \A j \in 1..Len(es.as) :
                   j # attempt' + 1 => es'.as[j] = es.as[j]]_vars

\* Index 0 was put twice with different handles after index 2 was put, and
\* a get at index 0 returned the later handle.
C21_Witness ==
    /\ last.evt = "get"
    /\ last.attempt = 0
    /\ DOMAIN stored = {0, 2}
    /\ stored[0] # stored[2]
    /\ last.handle = stored[0]
    /\ es.as[2] = NoHandle

\* C30: a put at attempt index i into a store holding fewer than i entries
\* makes every lower index j < i that was never put a valid placeholder:
\* get(j) succeeds without error and returns the absent handle, while get(i)
\* returns the handle just put.
C30_SkippedIndicesArePlaceholders ==
    [][(Calls("put") /\ Len(es.as) < attempt')
       => /\ \A j \in 0..(attempt' - 1) :
                j \notin DOMAIN stored
                  => getAttemptState(es', j) = Found(NoHandle)
          /\ getAttemptState(es', attempt') = Found(last'.handle)
          /\ last'.handle # NoHandle]_vars

\* A put at index 2 into a store that held one entry: index 1 is a
\* placeholder, and a get of it returned the absent handle without error.
C30_Witness ==
    /\ last.evt = "get"
    /\ last.attempt = 1
    /\ DOMAIN stored = {0, 2}
    /\ last.handle = NoHandle
    /\ last.panic = NilErr
    /\ Len(es.as) = 3

\* C23: installation appends the handler to exactly the five event slots
\* execution-start, before-attempt, after-attempt, after-plan-timeout and
\* execution-end, after the handlers already registered there, and leaves
\* every other slot alone; when no logger is supplied the handler gets a
\* no-op logger, so that a later failure to open a span calls a logger that
\* is not nil and does not panic.
C23_InstallsOnFiveSlots ==
    /\ [][(last'.n = last.n + 1 /\ last'.evt = "OnHandlers" /\ ~handlers.nil)
          => /\ ~handlers'.nil
             /\ \A evt \in {"BeforeExecutionStart", "BeforeAttempt", "AfterAttempt",
                            "AfterPlanTimeout", "AfterExecutionEnd"} :
                   handlers'.slots[evt] = handlers.slots[evt] \o << TheHandler >>
             /\ \A evt \in {"BeforeReadBody", "AfterAttemptTimeout"} :
                   handlers'.slots[evt] = handlers.slots[evt]
             /\ logger' = IF logger = NilLogger THEN "NopLogger{}" ELSE logger
             /\ last'.panic = NilErr]_vars
    /\ [](Len(log) > 0 => (logger # NilLogger /\ last.panic = NilErr))

\* Installed without a logger behind another handler, the handler failed to
\* open the root span and made its log call on the no-op logger.
C23_Witness ==
    /\ last.evt = "BeforeExecutionStart"
    /\ ~last.opened
    /\ Len(log) = 1
    /\ logger = "NopLogger{}"
    /\ handlers.slots["BeforeExecutionStart"] = << OtherHandler, TheHandler >>
    /\ handlers.slots["AfterPlanTimeout"] = << TheHandler >>
    /\ handlers.slots["BeforeReadBody"] = << OtherHandler >>

(***************************************************************************)
(* Concurrent invocations of the handler.                                  *)
(***************************************************************************)
\* The invocation is at an operation of the given kinds.
AtKind(t, kinds) == Runnable(t) /\ At(t).kind \in kinds

\* The spans whose lock the invocation holds.
Held(t) == {s \in Spans : t \in locks[s]}

\* C27: an invocation that is about to write a span's fields holds that
\* span's lock, no lock has two holders, and so no two invocations are at a
\* write of the same span together.
C27_WritesUnderOwnLock ==
    /\ \A s \in Spans : Cardinality(locks[s]) <= 1
    /\ \A t \in Threads : AtKind(t, {"write"}) => locks[At(t).span] = {t}
    /\ \A t, u \in Threads :
         (t # u /\ AtKind(t, {"write"}) /\ AtKind(u, {"write"}))
            => At(t).span # At(u).span

\* Execution end is writing the root span under its lock while a racing
\* attempt waits to begin its subsegment under the root span.
C27_Witness ==
    /\ AtKind("end", {"write"})
    /\ locks["root"] = {"end"}
    /\ \E t \in Racers : ~Done(t) /\ At(t).kind = "sdk" /\ At(t).span = "root"

\* C28: no invocation that holds a span's lock is at a call to the span
\* backend, at a step of putAttemptState or at the replacement of the
\* execution's plan or request.
C28_LockOnlyAroundMutation ==
    \A t \in Threads :
        AtKind(t, {"backend", "sdk", "load", "create", "grow", "store", "entry", "assign"})
            => Held(t) = {}

\* The invocation's putAttemptState has ended.
PutDone(t) == pc[t] >= Len(beforeAttemptOps(t)) - 1

\* C22: once the puts of the racing attempts have ended, each attempt's index
\* holds the state that attempt put.
C22_ConcurrentPutsKeepEveryEntry ==
    (\A t \in Racers : PutDone(t))
        => \A t \in Racers : getAttemptState(Keyed, IndexOf[t]) = Found(NewHandle[t])

AllDone == \A t \in Threads : Done(t)

\* C29: no invocation is at an operation that acquires a lock it already
\* holds, and every invocation ends.
C29_EveryInvocationTerminates ==
    /\ [](\A t \in Threads : AtKind(t, {"lock", "sdk"}) => At(t).span \notin Held(t))
    /\ <>[]AllDone

\* Every invocation has ended, no lock is held, and both racing attempts
\* found their state.
C29_Witness ==
    /\ AllDone
    /\ \A s \in Spans : locks[s] = {}
    /\ \A t \in Racers : loc[t].panic = NilErr /\ loc[t].got = NewHandle[t]

(***************************************************************************)
(* Lookups of entries that were never put, and the order of the steps of   *)
(* the closing handlers.                                                   *)
(***************************************************************************)
\* C31: when the execution state exists, a get at an attempt index that no
\* put ever populated reports an error, also when the index lies below the
\* highest populated one.
C31_NeverPutIsNotFound ==
    [][(Calls("get") /\ es.present /\ attempt' \notin DOMAIN stored)
         => last'.panic # NilErr]_vars

\* C32: an after-attempt of an attempt that ended without error calls GotConn
\* on no handle; an after-attempt that resolved the attempt's span and ended
\* in error calls GotConn(nil, e.Err) once, on the handle of that attempt's
\* index; no after-attempt makes more than one call.
C32_ForwardsErrorExactlyOnError ==
    [][Handles("AfterAttempt")
         => /\ err' = NilErr => gotConn' = gotConn
            /\ last'.seg = NoSeg => gotConn' = gotConn
            /\ (err' # NilErr /\ last'.seg # NoSeg)
                 => gotConn' = Append(gotConn, [handle |-> HandleOf(attempt'),
                                                err |-> err'])]_vars

\* Two attempts with spans have ended, one in error and then one without:
\* the only GotConn call is the one on the handle of the failed attempt.
C32_Witness ==
    /\ last.evt = "AfterAttempt"
    /\ last.seg # NoSeg
    /\ err = NilErr
    /\ concluded = {0, 1}
    /\ Len(gotConn) = 1
    /\ \E i \in Attempts :
          /\ i # last.attempt
          /\ AttemptSpan(i) # NoSeg
          /\ gotConn[1] = [handle |-> HandleOf(i), err |-> "Timeout"]

\* The step closes the span the handler resolved.
Closes(evt) ==
    /\ Handles(evt)
    /\ last'.seg # NoSeg
    /\ segs'[last'.seg].closes = segs[last'.seg].closes + 1

\* C33: no annotation is ever written to a span that is closed; after an
\* after-attempt or execution-end that closes a span and raises no fatal, the
\* closed span carries the status of the response (when there is one) and
\* the body length (when there is a body), and after execution-end the
\* attempts and waves counts as well.
C33_AnnotatedBeforeClosed ==
    /\ [](\A s \in 1..Len(segs) : ~segs[s].annotatedAfterClose)
    /\ [][((Closes("AfterAttempt") \/ Closes("AfterExecutionEnd")) /\ last'.panic = NilErr)
            => LET seg == segs'[last'.seg]
               IN /\ ~seg.InProgress
                  /\ response' # NoResponse => seg.Status = response'
                  /\ body' # NilBody => seg.body_length = body'
                  /\ Closes("AfterExecutionEnd")
                       => seg.attempts = attempt' + 1 /\ seg.waves = wave' + 1]_vars

\* The execution ended with a throttled response and a body: the closed root
\* span carries status, flags, body length and counts, and an attempt span
\* closed before it carries its own status.
C33_Witness ==
    /\ phase = "ended"
    /\ Root # NoSeg
    /\ ~segs[Root].InProgress
    /\ segs[Root].Status = 429
    /\ segs[Root].Throttle
    /\ segs[Root].body_length = 3
    /\ segs[Root].attempts # NoMeta
    /\ segs[Root].waves # NoMeta
    /\ \E i \in Attempts :
          /\ AttemptSpan(i) # NoSeg
          /\ ~segs[AttemptSpan(i)].InProgress
          /\ segs[AttemptSpan(i)].Status = 503
          /\ ~segs[AttemptSpan(i)].annotatedAfterClose

\* The messages of the two errors of getAttemptState.
StateMissing == {"httpxxray: no execution state", "httpxxray: no attempt state %d"}

\* C34: an after-attempt that resolved a span and panics because the
\* execution state or the attempt's entry is missing leaves that span closed,
\* closed once by this step, with the attempt's terminal error as the closing
\* error: a non-nil error marks the span as a fault.
C34_FatalStillClosesSpan ==
    [][(Handles("AfterAttempt") /\ last'.seg # NoSeg /\ last'.panic \in StateMissing)
         => /\ segs[last'.seg].InProgress
            /\ ~segs'[last'.seg].InProgress
            /\ segs'[last'.seg].closes = 1
            /\ segs'[last'.seg].Fault = (err' # NilErr)
            /\ \A s \in 1..Len(segs) : s # last'.seg => segs'[s] = segs[s]]_vars

\* The entry of attempt 1 was missing: its after-attempt panicked and its
\* span is closed as a fault of the attempt's error.
C34_Witness ==
    /\ last.evt = "AfterAttempt"
    /\ last.seg # NoSeg
    /\ last.panic = "httpxxray: no attempt state %d"
    /\ err = "Timeout"
    /\ ~segs[last.seg].InProgress
    /\ segs[last.seg].Fault
    /\ segs[last.seg].closes = 1

C34_WitnessNoExecutionState ==
    /\ last.evt = "AfterAttempt"
    /\ last.seg # NoSeg
    /\ last.panic = "httpxxray: no execution state"
    /\ err = NilErr
    /\ ~segs[last.seg].InProgress
    /\ ~segs[last.seg].Fault

====
